---- MODULE Spec2Model ----
(***************************************************************************)
(* RabbitGateway (src/src/RabbitGateway.js): the server side of the Rabbit *)
(* R1 OpenClaw pairing-and-chat protocol, with the listeners of the        *)
(* example application (src/examples/simple_bot.js).                       *)
(*                                                                         *)
(* A state is the gateway object (token, debug, wss, clients), the         *)
(* sockets it was handed (readyState, the deviceId tag) and the effects of *)
(* the last callback that ran, in program order (trace): frames written    *)
(* with ws.send, console lines, notifications raised with emit and the     *)
(* values sendText returned.  Each action is one callback of the event     *)
(* loop, run to completion.                                                *)
(***************************************************************************)
EXTENDS Integers, Sequences, FiniteSets, TLC

(* ------------------------------------------------------------------ *)
(* Bounds and input sets                                              *)
(* ------------------------------------------------------------------ *)

\* Number of transport connections the server accepts in one run.
NumConns == 2

Conns == 1..NumConns

\* Number of callbacks (start, connection, message, close, sendText calls, a
\* transport starting to close) the event loop runs in one run.
MaxCallbacks == 7

\* clients.get(id) when the Map has no such key.
NoWs == 0

\* The JavaScript value undefined in a slot that otherwise holds a string.
Undefined == "undefined"

\* Device ids clients send.
DeviceIds == {"d1"}

\* options.token of the constructor, and the tokens clients present.
ConfiguredToken == "tokA"
GeneratedToken == "uuidhex"
ClientTokens == {"tokA", "tokB"}

\* uuidv4() and Date.now(): values the model does not distinguish.
Uuid == "uuid"
Now == "now"

VARIABLES
    token,        \* this.token
    debug,        \* this.debug
    app,          \* the listeners the application registered: "none" | "bot"
    started,      \* this.wss # null
    clients,      \* this.clients: Map deviceId -> WebSocket
    readyState,   \* ws.readyState of each socket ("NONE": not accepted yet)
    wsDeviceId,   \* ws.deviceId of each socket
    op,           \* the callback that ran last, with its arguments
    trace,        \* what that callback did, in program order
    callbacks,    \* history: the number of callbacks run so far
    latest,       \* history: deviceId -> socket of the last clients.set
    pairedUnder,  \* history: the <<socket, deviceId>> of every clients.set
    firstSent,    \* history: the first frame written to each socket
    notified,     \* history: <<event, socket, id>> of every deviceConnected
                  \*          and deviceDisconnected raised
    extractIn,    \* a request handed to _extractToken and _extractDeviceId
    extractOut    \* what they returned for it

vars == <<token, debug, app, started, clients, readyState, wsDeviceId,
          op, trace, callbacks, latest, pairedUnder, firstSent, notified,
          extractIn, extractOut>>

(* ------------------------------------------------------------------ *)
(* JavaScript values                                                  *)
(* ------------------------------------------------------------------ *)

\* A string slot is truthy unless it is undefined or the empty string.
Truthy(x) == x # Undefined /\ x # ""

\* a || b
JsOr(a, b) == IF Truthy(a) THEN a ELSE b

\* Map.get, Map.set, Map.delete on a Map held as a function on its keys.
MapGet(m, k) == IF k \in DOMAIN m THEN m[k] ELSE NoWs

MapSetIfAbsent(m, k, v) ==
    IF k \in DOMAIN m THEN m
    ELSE [x \in (DOMAIN m) \cup {k} |-> IF x = k THEN v ELSE m[x]]

MapSet(m, k, v) == [x \in (DOMAIN m) \cup {k} |-> IF x = k THEN v ELSE m[x]]

MapDelete(m, k) == [x \in (DOMAIN m) \ {k} |-> m[x]]

EmptyMap == [x \in {} |-> NoWs]

\* `${req.socket.remoteAddress}:${req.socket.remotePort}` of each socket.
RemoteInfoTable == <<"10.0.0.1:5001", "10.0.0.2:5002", "10.0.0.3:5003", "10.0.0.4:5004">>

RemoteInfo(ws) == RemoteInfoTable[ws]

\* `device-${remoteInfo}`
TemplateDeviceId(remoteInfo) ==
    CASE remoteInfo = "10.0.0.1:5001" -> "device-10.0.0.1:5001"
      [] remoteInfo = "10.0.0.2:5002" -> "device-10.0.0.2:5002"
      [] remoteInfo = "10.0.0.3:5003" -> "device-10.0.0.3:5003"
      [] OTHER -> "device-10.0.0.4:5004"

(* ------------------------------------------------------------------ *)
(* Inbound text                                                       *)
(* ------------------------------------------------------------------ *)

\* A parsed request object.  hasParams is whether msg.params is an object;
\* the params_* fields are undefined when it is not.
BlankMsg ==
    [method |-> Undefined, id |-> Undefined, hasParams |-> FALSE,
     params_auth_token |-> Undefined, params_authToken |-> Undefined,
     auth_token |-> Undefined, token |-> Undefined,
     params_device_id |-> Undefined, params_deviceId |-> Undefined,
     params_client_id |-> Undefined, deviceId |-> Undefined,
     params_message |-> Undefined, params_sessionKey |-> Undefined,
     params_idempotencyKey |-> Undefined]

\* The documented connect request (README, Connection & Handshake, step 3).
ConnectMsg(method, id, tok, dev) ==
    [BlankMsg EXCEPT !.method = method, !.id = id, !.hasParams = TRUE,
                     !.params_auth_token = tok, !.params_device_id = dev]

\* A legacy connect request: token and device id at the top level.
LegacyConnectMsg(method, id, tok, dev) ==
    [BlankMsg EXCEPT !.method = method, !.id = id, !.token = tok, !.deviceId = dev]

\* The documented chat.send request (README, Chatting).
ChatMsg(id, text, idem) ==
    [BlankMsg EXCEPT !.method = "chat.send", !.id = id, !.hasParams = TRUE,
                     !.params_message = text, !.params_sessionKey = "main",
                     !.params_idempotencyKey = idem]

\* The requests clients send in the runs explored: the documented connect
\* with a right, a wrong and a missing token, with and without a device id;
\* a legacy gateway.connect; chat.send with and without params; a method
\* the gateway does not know.
ConnectMsgs ==
    { ConnectMsg("connect", "r1", tok, dev) :
        tok \in ClientTokens \cup {Undefined}, dev \in DeviceIds \cup {Undefined} }
    \cup { LegacyConnectMsg("gateway.connect", "r2", ConfiguredToken, "d1"),
           LegacyConnectMsg("gateway.connect", "r2", "", "") }

ChatMsgs ==
    { ChatMsg("r1", "hi", "k1"),
      ChatMsg("r2", Undefined, Undefined),
      [BlankMsg EXCEPT !.method = "chat.send", !.id = "r2"] }

OtherMsgs == { [BlankMsg EXCEPT !.method = "ping", !.id = "r1"] }

\* The text of one inbound frame: not JSON at all, the JSON literal null,
\* or a JSON object.
Datas ==
    { [kind |-> "garbage", value |-> BlankMsg], [kind |-> "null", value |-> BlankMsg] }
    \cup { [kind |-> "object", value |-> m] : m \in ConnectMsgs \cup ChatMsgs \cup OtherMsgs }

\* JSON.parse(data): a SyntaxError on text that is not JSON.
JsonParseThrows(data) == data.kind = "garbage"

\* Reading msg.method throws a TypeError when msg is null.
IsNull(data) == data.kind = "null"

(* ------------------------------------------------------------------ *)
(* Effects of a callback                                              *)
(* ------------------------------------------------------------------ *)

\* The state a callback works on: the registry, the sockets' deviceId
\* tags, the effects so far, and the exception in flight (if any).
Handler(cl, ids) == [clients |-> cl, deviceId |-> ids, trace |-> <<>>, threw |-> Undefined]

Effect(h, e) == [h EXCEPT !.trace = Append(@, e)]

Throw(h, err) == [h EXCEPT !.threw = err]

\* log(msg): console.log(`[RabbitGateway] ${msg}`), whatever this.debug is.
Log(h, fmt, args) == Effect(h, [kind |-> "log", fmt |-> fmt, args |-> args])

\* if (this.debug) console.log(tag, JSON.stringify(value))
DebugLog(h, tag, value) ==
    IF debug THEN Effect(h, [kind |-> "console", tag |-> tag, json |-> value]) ELSE h

SendJsonUnchecked(h, ws, data) ==
    Effect(DebugLog(h, "OUT >", data), [kind |-> "send", ws |-> ws, data |-> data])

\* _sendJson(ws, data)
SendJson(h, ws, data) ==
    IF readyState[ws] = "OPEN"
    THEN Effect(DebugLog(h, "OUT >", data), [kind |-> "send", ws |-> ws, data |-> data])
    ELSE h

(* ------------------------------------------------------------------ *)
(* sendText and the application's listeners                           *)
(* ------------------------------------------------------------------ *)

NoOptions == [runId |-> Undefined, sessionKey |-> Undefined]

ChatEventIgnoresOptions(text, options) ==
    [type |-> "event", event |-> "chat",
     payload |-> [runId |-> Uuid,
                  sessionKey |-> "main",
                  seq |-> 1, state |-> "final",
                  message |-> [role |-> "assistant",
                               content |-> <<[type |-> "text", text |-> text]>>,
                               timestamp |-> Now, stopReason |-> "stop",
                               usage |-> [input |-> 0, output |-> 0, totalTokens |-> 0]]]]

\* The chat event sendText builds.
ChatEvent(text, options) ==
    [type |-> "event", event |-> "chat",
     payload |-> [runId |-> JsOr(options.runId, Uuid),
                  sessionKey |-> JsOr(options.sessionKey, "main"),
                  seq |-> 1, state |-> "final",
                  message |-> [role |-> "assistant",
                               content |-> <<[type |-> "text", text |-> text]>>,
                               timestamp |-> Now, stopReason |-> "stop",
                               usage |-> [input |-> 0, output |-> 0, totalTokens |-> 0]]]]

Return(h, deviceId, value) ==
    Effect(h, [kind |-> "return", fn |-> "sendText", deviceId |-> deviceId, value |-> value])

SendTextAlwaysTrue(h, deviceId, text, options) ==
    LET ws == MapGet(h.clients, deviceId) IN
    IF ws = NoWs
    THEN Return(Log(h, "Cannot send to ${deviceId}: Not connected", <<deviceId>>),
                deviceId, TRUE)
    ELSE Return(SendJson(h, ws, ChatEvent(text, options)), deviceId, TRUE)

\* sendText(deviceId, text, options)
SendText(h, deviceId, text, options) ==
    LET ws == MapGet(h.clients, deviceId) IN
    IF ws = NoWs
    THEN Return(Log(h, "Cannot send to ${deviceId}: Not connected", <<deviceId>>),
                deviceId, FALSE)
    ELSE Return(SendJson(h, ws, ChatEvent(text, options)), deviceId, TRUE)

\* `You said: ${msg.text}` (no text the model sends includes 'time').
BotResponse(text) == IF text = "hi" THEN "You said: hi" ELSE "You said: "

\* The listeners of simple_bot.js, run synchronously inside emit.
BotListener(h, event, payload) ==
    CASE event = "deviceConnected" ->
            SendText(h, payload.id, "Hello! I am a custom Rabbit R1 server.", NoOptions)
      [] event = "message" ->
            IF payload.text = Undefined
            THEN Throw(h, "TypeError: Cannot read properties of undefined (reading 'toLowerCase')")
            ELSE SendText(h, payload.deviceId, BotResponse(payload.text),
                          [runId |-> payload.idempotencyKey, sessionKey |-> Undefined])
      [] OTHER -> h

\* this.emit(event, payload): every listener runs before emit returns.
Emit(h, event, payload) ==
    LET h1 == Effect(h, [kind |-> "emit", event |-> event, payload |-> payload]) IN
    IF app = "bot" THEN BotListener(h1, event, payload) ELSE h1

(* ------------------------------------------------------------------ *)
(* _handleMessage                                                     *)
(* ------------------------------------------------------------------ *)

ExtractTokenTopLevelFirst(msg) ==
    JsOr(msg.token, JsOr(msg.auth_token, JsOr(msg.params_authToken, msg.params_auth_token)))

\* _extractToken(msg)
ExtractToken(msg) ==
    JsOr(msg.params_auth_token, JsOr(msg.params_authToken, JsOr(msg.auth_token, msg.token)))

\* _extractDeviceId(msg)
ExtractDeviceId(msg) ==
    JsOr(msg.params_device_id, JsOr(msg.params_deviceId, JsOr(msg.params_client_id, msg.deviceId)))

IsConnect(msg) == msg.method = "connect" \/ msg.method = "gateway.connect"

\* const deviceId = this._extractDeviceId(msg) || `device-${remoteInfo}`
ResolveDeviceId(msg, remoteInfo) == JsOr(ExtractDeviceId(msg), TemplateDeviceId(remoteInfo))

\* clientToken !== this.token
AuthFails(msg) == ExtractToken(msg) # token

Res401(id) ==
    [type |-> "res", id |-> id, ok |-> FALSE,
     error |-> [code |-> 401, message |-> "Invalid token"]]

PairApproved(deviceId) ==
    [type |-> "event", event |-> "node.pair.approved",
     payload |-> [deviceId |-> deviceId, token |-> Uuid]]

ResPaired(id) ==
    [type |-> "res", id |-> id, ok |-> TRUE, payload |-> [status |-> "paired", ts |-> Now]]

ConnectOk(deviceId) ==
    [type |-> "event", event |-> "connect.ok", payload |-> [deviceId |-> deviceId, ts |-> Now]]

Ack(id) == [type |-> "res", id |-> id, ok |-> TRUE]

ConnectFailureRegisters(h, ws, msg, deviceId) ==
    LET h1 == [h EXCEPT !.clients = MapSet(@, deviceId, ws), !.deviceId[ws] = deviceId] IN
    SendJson(Log(h1, "Auth failed for device ${deviceId}", <<deviceId>>), ws, Res401(msg.id))

\* The branch of a connect request whose token does not match.
ConnectFailure(h, ws, msg, deviceId) ==
    SendJson(Log(h, "Auth failed for device ${deviceId}", <<deviceId>>), ws, Res401(msg.id))

ConnectSuccessEmitFirst(h, ws, msg, deviceId, remoteInfo) ==
    LET h1 == [h EXCEPT !.clients = MapSet(@, deviceId, ws), !.deviceId[ws] = deviceId]
        h2 == Log(h1, "Device Paired: ${deviceId}", <<deviceId>>)
        h3 == Emit(h2, "deviceConnected", [id |-> deviceId, remote |-> remoteInfo])
        h4 == SendJson(h3, ws, PairApproved(deviceId))
        h5 == SendJson(h4, ws, ResPaired(msg.id))
    IN  SendJson(h5, ws, ConnectOk(deviceId))

\* The branch of a connect request whose token matches.
ConnectSuccess(h, ws, msg, deviceId, remoteInfo) ==
    LET h1 == [h EXCEPT !.clients = MapSet(@, deviceId, ws), !.deviceId[ws] = deviceId]
        h2 == Log(h1, "Device Paired: ${deviceId}", <<deviceId>>)
        h3 == SendJson(h2, ws, PairApproved(deviceId))
        h4 == SendJson(h3, ws, ResPaired(msg.id))
        h5 == SendJson(h4, ws, ConnectOk(deviceId))
    IN  Emit(h5, "deviceConnected", [id |-> deviceId, remote |-> remoteInfo])

ChatSendUntagged(h, ws, msg) ==
    IF ~msg.hasParams
    THEN Throw(h, "TypeError: Cannot read properties of undefined (reading 'message')")
    ELSE LET h1 == Emit(h, "message",
                        [deviceId |-> "unknown", text |-> msg.params_message,
                         sessionKey |-> msg.params_sessionKey,
                         idempotencyKey |-> msg.params_idempotencyKey])
         IN  IF h1.threw # Undefined THEN h1 ELSE SendJson(h1, ws, Ack(msg.id))

\* The chat.send branch.  An exception thrown by a listener leaves emit
\* and _handleMessage before the acknowledgment is written.
ChatSend(h, ws, msg) ==
    IF ~msg.hasParams
    THEN Throw(h, "TypeError: Cannot read properties of undefined (reading 'message')")
    ELSE LET deviceId == JsOr(h.deviceId[ws], "unknown")
             h1 == Emit(h, "message",
                        [deviceId |-> deviceId, text |-> msg.params_message,
                         sessionKey |-> msg.params_sessionKey,
                         idempotencyKey |-> msg.params_idempotencyKey])
         IN  IF h1.threw # Undefined THEN h1 ELSE SendJson(h1, ws, Ack(msg.id))

HandleMessageRejectsUnknown(h, ws, msg, remoteInfo) ==
    LET h0 == DebugLog(h, "IN <", msg) IN
    IF IsConnect(msg)
    THEN LET deviceId == ResolveDeviceId(msg, remoteInfo) IN
         IF AuthFails(msg)
         THEN ConnectFailure(h0, ws, msg, deviceId)
         ELSE ConnectSuccess(h0, ws, msg, deviceId, remoteInfo)
    ELSE IF msg.method = "chat.send"
         THEN ChatSend(h0, ws, msg)
         ELSE SendJson(h0, ws, Res401(msg.id))

\* _handleMessage(ws, msg, remoteInfo)
HandleMessage(h, ws, msg, remoteInfo) ==
    LET h0 == DebugLog(h, "IN <", msg) IN
    IF IsConnect(msg)
    THEN LET deviceId == ResolveDeviceId(msg, remoteInfo) IN
         IF AuthFails(msg)
         THEN ConnectFailure(h0, ws, msg, deviceId)
         ELSE ConnectSuccess(h0, ws, msg, deviceId, remoteInfo)
    ELSE IF msg.method = "chat.send"
         THEN ChatSend(h0, ws, msg)
         ELSE h0

CatchDropsRegistry(h, remoteInfo) ==
    [Log(h, "Error parsing message from ${remoteInfo}: ${err.message}", <<remoteInfo, h.threw>>)
        EXCEPT !.threw = Undefined, !.clients = EmptyMap]

\* catch (err) { this.log(`Error parsing message from ...`) }
Catch(h, remoteInfo) ==
    [Log(h, "Error parsing message from ${remoteInfo}: ${err.message}", <<remoteInfo, h.threw>>)
        EXCEPT !.threw = Undefined]

\* The ws.on('message') callback of _handleConnection.
OnMessage(h, ws, data, remoteInfo) ==
    LET h1 == IF JsonParseThrows(data)
              THEN Throw(h, "SyntaxError: Unexpected token")
              ELSE IF IsNull(data)
                   THEN Throw(DebugLog(h, "IN <", [literal |-> "null"]),
                              "TypeError: Cannot read properties of null (reading 'method')")
                   ELSE HandleMessage(h, ws, data.value, remoteInfo)
    IN  IF h1.threw # Undefined THEN Catch(h1, remoteInfo) ELSE h1

\* _handleDisconnect(ws)
HandleDisconnect(h, ws) ==
    IF Truthy(h.deviceId[ws])
    THEN LET h1 == [h EXCEPT !.clients = MapDelete(@, h.deviceId[ws])]
             h2 == Log(h1, "Device disconnected: ${ws.deviceId}", <<h.deviceId[ws]>>)
         IN  Emit(h2, "deviceDisconnected", [id |-> h.deviceId[ws]])
    ELSE h

\* The connect.challenge event _handleConnection sends first.
Challenge == [type |-> "event", event |-> "connect.challenge",
              payload |-> [nonce |-> Uuid, ts |-> Now]]

(* ------------------------------------------------------------------ *)
(* The callbacks of the event loop                                    *)
(* ------------------------------------------------------------------ *)

NoData == [kind |-> "none", value |-> BlankMsg]

\* No frame has been written to the socket yet.
NoFrame == [type |-> "none"]

\* The first frame written to each socket, once callback effects tr are added.
FirstSentAfter(tr) ==
    [c \in Conns |->
        LET IsSendTo(e) == e.kind = "send" /\ e.ws = c
            sent == SelectSeq(tr, IsSendTo)
        IN  IF firstSent[c] = NoFrame /\ sent # <<>> THEN sent[1].data ELSE firstSent[c]]

\* The connection notifications raised so far, once socket ws has run a
\* callback with effects tr.
NotifiedAfter(tr, ws) ==
    notified \cup
    { <<tr[i].event, ws, tr[i].payload.id>> :
        i \in { j \in 1..Len(tr) :
                   tr[j].kind = "emit"
                   /\ tr[j].event \in {"deviceConnected", "deviceDisconnected"} } }

\* No request is in the hands of the extractors.
NoExtract == [token |-> Undefined, deviceId |-> Undefined, done |-> FALSE]

ExtractIdle == UNCHANGED <<extractIn, extractOut>>

HandleConnectionNoChallenge(h, ws) ==
    Log(h, "New connection from ${remoteInfo}", <<RemoteInfo(ws)>>)

\* _handleConnection(ws, req) up to the registration of the listeners: the
\* socket is handed over open, so _sendJson writes the challenge.
HandleConnection(h, ws) ==
    LET h0 == Log(h, "New connection from ${remoteInfo}", <<RemoteInfo(ws)>>)
    IN  Effect(DebugLog(h0, "OUT >", Challenge),
               [kind |-> "send", ws |-> ws, data |-> Challenge])

Op(name, ws, data, deviceId, options) ==
    [name |-> name, ws |-> ws, data |-> data, deviceId |-> deviceId, options |-> options]

\* What the application passes to sendText.
SendTextIds == DeviceIds \cup { TemplateDeviceId(RemoteInfo(1)) }
SendTextOptions == { NoOptions, [runId |-> "k1", sessionKey |-> "s2"],
                     [runId |-> "", sessionKey |-> ""] }

\* One more callback runs, within the number explored.
Tick == callbacks < MaxCallbacks /\ callbacks' = callbacks + 1

\* new RabbitGateway(options), and the application's gateway.on(...) calls.
Init ==
    /\ \E o \in {Undefined, ConfiguredToken} : token = JsOr(o, GeneratedToken)
    /\ debug \in BOOLEAN
    /\ app \in {"none", "bot"}
    /\ started = FALSE
    /\ clients = EmptyMap
    /\ readyState = [c \in Conns |-> "NONE"]
    /\ wsDeviceId = [c \in Conns |-> Undefined]
    /\ op = Op("constructor", NoWs, NoData, Undefined, NoOptions)
    /\ trace = <<>>
    /\ callbacks = 0
    /\ latest = EmptyMap
    /\ pairedUnder = {}
    /\ firstSent = [c \in Conns |-> NoFrame]
    /\ notified = {}
    /\ extractIn = [msg |-> BlankMsg, remoteInfo |-> RemoteInfo(1)]
    /\ extractOut = NoExtract

\* start()
Start ==
    /\ Tick
    /\ ~started
    /\ started' = TRUE
    /\ op' = Op("start", NoWs, NoData, Undefined, NoOptions)
    /\ trace' = Log(Log(Handler(clients, wsDeviceId),
                        "Rabbit Gateway listening on port ${this.port}", <<"18789">>),
                    "Gateway Token: ${this.token}", <<token>>).trace
    /\ UNCHANGED <<token, debug, app, clients, readyState, wsDeviceId, latest, pairedUnder,
                   firstSent, notified>>
    /\ ExtractIdle

\* _handleConnection(ws, req): the server hands over an open socket.
Accept(ws) ==
    /\ Tick
    /\ started
    /\ readyState[ws] = "NONE"
    /\ \A c \in Conns : c < ws => readyState[c] # "NONE"
    /\ readyState' = [readyState EXCEPT ![ws] = "OPEN"]
    /\ op' = Op("connection", ws, NoData, Undefined, NoOptions)
    /\ trace' = HandleConnection(Handler(clients, wsDeviceId), ws).trace
    /\ firstSent' = FirstSentAfter(trace')
    /\ UNCHANGED <<token, debug, app, started, clients, wsDeviceId, latest, pairedUnder,
                   notified>>
    /\ ExtractIdle

\* The transport starts closing (a close frame, an error, the socket's end):
\* readyState leaves OPEN before the 'close' event is delivered.
TransportClosing(ws) ==
    /\ Tick
    /\ readyState[ws] = "OPEN"
    /\ readyState' = [readyState EXCEPT ![ws] = "CLOSING"]
    /\ op' = Op("closing", ws, NoData, Undefined, NoOptions)
    /\ trace' = <<>>
    /\ UNCHANGED <<token, debug, app, started, clients, wsDeviceId, latest, pairedUnder,
                   firstSent, notified>>
    /\ ExtractIdle

\* ws.on('message', ...): one inbound frame, handled to completion.
Message(ws, data) ==
    /\ Tick
    /\ readyState[ws] \in {"OPEN", "CLOSING"}
    /\ LET h == OnMessage(Handler(clients, wsDeviceId), ws, data, RemoteInfo(ws))
           set == data.kind = "object" /\ IsConnect(data.value) /\ ~AuthFails(data.value)
           id == ResolveDeviceId(data.value, RemoteInfo(ws))
       IN  /\ clients' = h.clients
           /\ wsDeviceId' = h.deviceId
           /\ trace' = h.trace
           /\ latest' = IF set
                        THEN [x \in (DOMAIN latest) \cup {id} |-> IF x = id THEN ws ELSE latest[x]]
                        ELSE latest
           /\ pairedUnder' = IF set THEN pairedUnder \cup {<<ws, id>>} ELSE pairedUnder
    /\ op' = Op("message", ws, data, Undefined, NoOptions)
    /\ firstSent' = FirstSentAfter(trace')
    /\ notified' = NotifiedAfter(trace', ws)
    /\ UNCHANGED <<token, debug, app, started, readyState>>
    /\ ExtractIdle

\* ws.on('close', ...)
Close(ws) ==
    /\ Tick
    /\ readyState[ws] \in {"OPEN", "CLOSING"}
    /\ readyState' = [readyState EXCEPT ![ws] = "CLOSED"]
    /\ LET h == HandleDisconnect(Handler(clients, wsDeviceId), ws)
       IN  /\ clients' = h.clients
           /\ wsDeviceId' = h.deviceId
           /\ trace' = h.trace
    /\ op' = Op("close", ws, NoData, Undefined, NoOptions)
    /\ firstSent' = FirstSentAfter(trace')
    /\ notified' = NotifiedAfter(trace', ws)
    /\ UNCHANGED <<token, debug, app, started, latest, pairedUnder>>
    /\ ExtractIdle

\* The application calls gateway.sendText(deviceId, text, options).
CallSendText(deviceId, options) ==
    /\ Tick
    /\ LET h == SendText(Handler(clients, wsDeviceId), deviceId, "hello", options)
       IN  trace' = h.trace
    /\ op' = Op("sendText", NoWs, NoData, deviceId, options)
    /\ firstSent' = FirstSentAfter(trace')
    /\ UNCHANGED <<token, debug, app, started, clients, readyState, wsDeviceId,
                   latest, pairedUnder, notified>>
    /\ ExtractIdle

Next ==
    \/ Start
    \/ \E ws \in Conns : Accept(ws)
    \/ \E ws \in Conns : TransportClosing(ws)
    \/ \E ws \in Conns, data \in Datas : Message(ws, data)
    \/ \E ws \in Conns : Close(ws)
    \/ \E d \in SendTextIds, o \in SendTextOptions : CallSendText(d, o)

Spec == Init /\ [][Next]_vars

(* ------------------------------------------------------------------ *)
(* The extractors alone                                               *)
(* ------------------------------------------------------------------ *)

\* A value for each of the four locations, so that the location a result
\* came from can be told.
TokenAt == <<"t1", "t2", "t3", "t4">>
DeviceAt == <<"i1", "i2", "i3", "i4">>

\* Every way to leave each location absent, empty or holding its value.
LocTuples(vals) ==
    { f \in [1..Len(vals) -> {Undefined, ""} \cup { vals[i] : i \in 1..Len(vals) }] :
        \A i \in 1..Len(vals) : f[i] \in {Undefined, "", vals[i]} }

\* A connect request with the given values at params.auth.token,
\* params.authToken, auth.token, token and at params.device.id,
\* params.deviceId, params.client.id, deviceId.
ExtractMsg(tk, dv) ==
    [BlankMsg EXCEPT !.method = "connect", !.id = "r1", !.hasParams = TRUE,
                     !.params_auth_token = tk[1], !.params_authToken = tk[2],
                     !.auth_token = tk[3], !.token = tk[4],
                     !.params_device_id = dv[1], !.params_deviceId = dv[2],
                     !.params_client_id = dv[3], !.deviceId = dv[4]]

ExtractInputs ==
    { [msg |-> ExtractMsg(tk, dv), remoteInfo |-> RemoteInfo(1)] :
        tk \in LocTuples(TokenAt), dv \in LocTuples(DeviceAt) }

InitExtract ==
    /\ token = ConfiguredToken
    /\ debug = FALSE
    /\ app = "none"
    /\ started = FALSE
    /\ clients = EmptyMap
    /\ readyState = [c \in Conns |-> "NONE"]
    /\ wsDeviceId = [c \in Conns |-> Undefined]
    /\ op = Op("constructor", NoWs, NoData, Undefined, NoOptions)
    /\ trace = <<>>
    /\ callbacks = 0
    /\ latest = EmptyMap
    /\ pairedUnder = {}
    /\ firstSent = [c \in Conns |-> NoFrame]
    /\ notified = {}
    /\ extractIn \in ExtractInputs
    /\ extractOut = NoExtract

\* Lines 147-148 of _handleMessage on the request.
ExtractStep ==
    /\ ~extractOut.done
    /\ extractOut' = [token |-> ExtractToken(extractIn.msg),
                      deviceId |-> ResolveDeviceId(extractIn.msg, extractIn.remoteInfo),
                      done |-> TRUE]
    /\ UNCHANGED <<token, debug, app, started, clients, readyState, wsDeviceId, op, trace,
                   callbacks, latest, pairedUnder, firstSent, notified, extractIn>>

NextExtract == ExtractStep

SpecExtract == InitExtract /\ [][NextExtract]_vars

(* ------------------------------------------------------------------ *)
(* Reading a callback's effects                                       *)
(* ------------------------------------------------------------------ *)

\* The frames a callback wrote, in order, as <<socket, frame>> entries.
Sends(tr) == LET IsSend(e) == e.kind = "send" IN SelectSeq(tr, IsSend)

SendsTo(tr, ws) == LET IsSendTo(e) == e.kind = "send" /\ e.ws = ws IN SelectSeq(tr, IsSendTo)

\* The notifications a callback raised, in order.
Emits(tr) == LET IsEmit(e) == e.kind = "emit" IN SelectSeq(tr, IsEmit)

EmitsOf(tr, event) ==
    LET IsIt(e) == e.kind = "emit" /\ e.event = event IN SelectSeq(tr, IsIt)

Sent(ws, data) == [kind |-> "send", ws |-> ws, data |-> data]

IsChatEvent(data) == data.type = "event" /\ data.event = "chat"

\* The request of the message callback that ran last.
Request == op.data.value

IsRequest == op.name = "message" /\ op.data.kind = "object"

(* ------------------------------------------------------------------ *)
(* C1                                                                 *)
(* ------------------------------------------------------------------ *)

ConnectAccepted ==
    /\ IsRequest
    /\ IsConnect(Request)
    /\ ExtractToken(Request) = token
    /\ readyState[op.ws] = "OPEN"

\* C1: a connect or gateway.connect request with the gateway's token, on a
\* socket whose transport is open, makes the gateway write exactly three
\* frames, all to that socket and in this order: node.pair.approved, the
\* success response with the request's id and status "paired", connect.ok.
\* deviceConnected{id, remote} is raised once, after the three frames; the
\* only frames after it are chat events a listener sends with sendText.
C1_PairingFramesThenNotify ==
    ConnectAccepted =>
        LET ws == op.ws
            d == ResolveDeviceId(Request, RemoteInfo(ws))
            at == { i \in 1..Len(trace) : trace[i].kind = "emit" }
        IN  /\ Cardinality(at) = 1
            /\ \A i \in at :
                /\ trace[i].event = "deviceConnected"
                /\ trace[i].payload = [id |-> d, remote |-> RemoteInfo(ws)]
                /\ Sends(SubSeq(trace, 1, i - 1)) =
                       << Sent(ws, PairApproved(d)), Sent(ws, ResPaired(Request.id)),
                          Sent(ws, ConnectOk(d)) >>
                /\ \A j \in (i + 1)..Len(trace) :
                       trace[j].kind = "send" => IsChatEvent(trace[j].data)

\* A legacy gateway.connect was accepted and the notification raised.
C1_Witness ==
    /\ ConnectAccepted
    /\ Request.method = "gateway.connect"
    /\ Len(EmitsOf(trace, "deviceConnected")) = 1
    /\ Len(SendsTo(trace, op.ws)) >= 3

(* ------------------------------------------------------------------ *)
(* C2                                                                 *)
(* ------------------------------------------------------------------ *)

ConnectRefused == IsRequest /\ IsConnect(Request) /\ ExtractToken(Request) # token

\* C2, as claimed: a connect request whose token differs from the gateway's
\* (or is missing) writes exactly one frame to the socket, the 401 response
\* with the request's id; the registry, the socket's readyState and its
\* device id are unchanged and deviceConnected is not raised.
C2_RefusalWritesOne401 ==
    [][ ConnectRefused' =>
            /\ Sends(trace') = << Sent(op'.ws, Res401(op'.data.value.id)) >>
            /\ clients' = clients
            /\ wsDeviceId' = wsDeviceId
            /\ readyState' = readyState
            /\ Emits(trace') = <<>> ]_vars

\* C2, amended: the 401 response is the one frame written when the socket's
\* transport is open; when it is not open nothing is written.  In both
\* cases the registry, the socket's readyState and device id are unchanged
\* and nothing is raised.
C2_RefusalWrites401IfOpen ==
    [][ ConnectRefused' =>
            /\ Sends(trace') =
                   IF readyState[op'.ws] = "OPEN"
                   THEN << Sent(op'.ws, Res401(op'.data.value.id)) >>
                   ELSE <<>>
            /\ clients' = clients
            /\ wsDeviceId' = wsDeviceId
            /\ readyState' = readyState
            /\ Emits(trace') = <<>> ]_vars

\* A connect without a token was refused with a 401 on a paired, open socket.
C2_Witness ==
    /\ ConnectRefused
    /\ ExtractToken(Request) = Undefined
    /\ readyState[op.ws] = "OPEN"
    /\ wsDeviceId[op.ws] # Undefined
    /\ Sends(trace) = << Sent(op.ws, Res401(Request.id)) >>

(* ------------------------------------------------------------------ *)
(* C3                                                                 *)
(* ------------------------------------------------------------------ *)

\* C3: whenever the socket that paired last under a device id has not
\* closed, the registry maps that id to that socket.
C3_RegistryHoldsLatestPairing ==
    \A d \in DOMAIN latest :
        readyState[latest[d]] # "CLOSED" => MapGet(clients, d) = latest[d]

(* ------------------------------------------------------------------ *)
(* C4                                                                 *)
(* ------------------------------------------------------------------ *)

\* C4: a chat.send request on a socket that has not paired raises no
\* message notification and writes no frame to the socket.
C4_UnpairedChatIgnored ==
    (IsRequest /\ Request.method = "chat.send" /\ wsDeviceId[op.ws] = Undefined) =>
        /\ EmitsOf(trace, "message") = <<>>
        /\ SendsTo(trace, op.ws) = <<>>

(* ------------------------------------------------------------------ *)
(* C5                                                                 *)
(* ------------------------------------------------------------------ *)

\* C5: once a socket has a device id, every later state of that socket has
\* the same device id.
C5_DeviceIdNeverChanges ==
    [][ \A c \in Conns : wsDeviceId[c] # Undefined => wsDeviceId'[c] = wsDeviceId[c] ]_vars

(* ------------------------------------------------------------------ *)
(* C6                                                                 *)
(* ------------------------------------------------------------------ *)

\* The line an entry of the trace put on the console holds the gateway token.
ContainsToken(e) ==
    \/ e.kind = "log" /\ \E k \in 1..Len(e.args) : e.args[k] = token
    \/ /\ e.kind = "console"
       /\ e.tag = "IN <"
       /\ "token" \in DOMAIN e.json
       /\ token \in { e.json.params_auth_token, e.json.params_authToken,
                      e.json.auth_token, e.json.token }

\* C6: with debug disabled no callback writes a line holding the token.
C6_TokenLoggedOnlyInDebug ==
    ~debug => \A i \in 1..Len(trace) : ~ContainsToken(trace[i])

(* ------------------------------------------------------------------ *)
(* C7                                                                 *)
(* ------------------------------------------------------------------ *)

\* Socket ws paired under deviceId and another socket paired under it since.
Superseded(ws, deviceId) ==
    /\ <<ws, deviceId>> \in pairedUnder
    /\ MapGet(latest, deviceId) # ws

\* C7: once a second socket has paired under a device id an earlier socket
\* had paired under, no sendText to that id (called by the application or
\* by a listener) writes a frame to the earlier socket.  A sendText call
\* leaves in the trace the chat event it wrote, then the value it returned.
C7_SendTextReachesNewerOnly ==
    \A i \in 1..Len(trace) :
        (trace[i].kind = "return" /\ i > 1 /\ trace[i - 1].kind = "send"
            /\ IsChatEvent(trace[i - 1].data))
        => ~Superseded(trace[i - 1].ws, trace[i].deviceId)

\* Two sockets paired under the same id, both still open; the application
\* called sendText for that id and the frame went to the one that paired last.
C7_Witness ==
    /\ op.name = "sendText"
    /\ \E c1, c2 \in Conns :
        /\ c1 # c2
        /\ Superseded(c1, op.deviceId)
        /\ latest[op.deviceId] = c2
        /\ readyState[c1] = "OPEN"
        /\ SendsTo(trace, c1) = <<>>
        /\ Len(SendsTo(trace, c2)) = 1

(* ------------------------------------------------------------------ *)
(* C8                                                                 *)
(* ------------------------------------------------------------------ *)

\* C8: sendText to an id the registry does not hold returns false, writes
\* no frame, raises nothing and leaves the registry (and the sockets) as
\* they were.
C8_SendTextAbsentIsNoOp ==
    [][ (op'.name = "sendText" /\ MapGet(clients, op'.deviceId) = NoWs) =>
            /\ \E i \in 1..Len(trace') :
                   trace'[i] = [kind |-> "return", fn |-> "sendText",
                                deviceId |-> op'.deviceId, value |-> FALSE]
            /\ \A i \in 1..Len(trace') : trace'[i].kind = "return" => ~trace'[i].value
            /\ Sends(trace') = <<>>
            /\ Emits(trace') = <<>>
            /\ clients' = clients
            /\ wsDeviceId' = wsDeviceId
            /\ readyState' = readyState ]_vars

\* sendText returned false for an id that is not registered while another
\* id is.
C8_Witness ==
    /\ op.name = "sendText"
    /\ MapGet(clients, op.deviceId) = NoWs
    /\ DOMAIN clients # {}
    /\ \E i \in 1..Len(trace) : trace[i].kind = "return" /\ ~trace[i].value

(* ------------------------------------------------------------------ *)
(* C9                                                                 *)
(* ------------------------------------------------------------------ *)

\* Every socket that ever paired under deviceId has closed (none ever
\* paired under it included).
NoLivePairing(deviceId) ==
    \A c \in Conns : <<c, deviceId>> \in pairedUnder => readyState[c] = "CLOSED"

\* C9: sendText to a device id under which no socket that is still open has
\* paired returns false.
C9_SendTextToDisconnectedFails ==
    (op.name = "sendText" /\ NoLivePairing(op.deviceId)) =>
        \A i \in 1..Len(trace) : trace[i].kind = "return" => ~trace[i].value

(* ------------------------------------------------------------------ *)
(* C10                                                                *)
(* ------------------------------------------------------------------ *)

\* C10: inbound text that is not JSON, on a socket in any state, leaves the
\* socket's readyState and device id, the registry and every other socket
\* as they were, writes no frame and raises nothing; and every request the
\* socket may send next is handled exactly as it would have been before.
C10_MalformedInputChangesNothing ==
    [][ (op'.name = "message" /\ op'.data.kind = "garbage") =>
            /\ clients' = clients
            /\ wsDeviceId' = wsDeviceId
            /\ readyState' = readyState
            /\ Sends(trace') = <<>>
            /\ Emits(trace') = <<>>
            /\ \A next \in Datas :
                   OnMessage(Handler(clients', wsDeviceId'), op'.ws, next, RemoteInfo(op'.ws))
                   = OnMessage(Handler(clients, wsDeviceId), op'.ws, next, RemoteInfo(op'.ws)) ]_vars

\* Text that is not JSON arrived on a paired socket the registry holds, and
\* was logged.
C10_Witness ==
    /\ op.name = "message"
    /\ op.data.kind = "garbage"
    /\ wsDeviceId[op.ws] # Undefined
    /\ MapGet(clients, wsDeviceId[op.ws]) = op.ws
    /\ Len(trace) = 1
    /\ trace[1].kind = "log"

(* ------------------------------------------------------------------ *)
(* C11                                                                *)
(* ------------------------------------------------------------------ *)

\* The responses a callback wrote, in order.
Responses(tr) ==
    LET IsRes(e) == e.kind = "send" /\ e.data.type = "res" IN SelectSeq(tr, IsRes)

\* C11: a chat.send request carrying message, sessionKey and idempotencyKey,
\* on a paired socket whose transport is open, raises exactly one message
\* notification {deviceId of the socket, text, sessionKey, idempotencyKey}
\* and writes exactly one response, the acknowledgment with the request's
\* id, to that socket; the registry and the socket's state are unchanged.
C11_ChatNotifiedAndAcknowledged ==
    [][ ( /\ op'.name = "message"
          /\ op'.data.kind = "object"
          /\ op'.data.value.method = "chat.send"
          /\ op'.data.value.hasParams
          /\ op'.data.value.params_message # Undefined
          /\ op'.data.value.params_sessionKey # Undefined
          /\ op'.data.value.params_idempotencyKey # Undefined
          /\ wsDeviceId[op'.ws] # Undefined
          /\ readyState[op'.ws] = "OPEN" )
        =>
        /\ Emits(trace') =
               << [kind |-> "emit", event |-> "message",
                   payload |-> [deviceId |-> wsDeviceId[op'.ws],
                                text |-> op'.data.value.params_message,
                                sessionKey |-> op'.data.value.params_sessionKey,
                                idempotencyKey |-> op'.data.value.params_idempotencyKey]] >>
        /\ Responses(trace') = << Sent(op'.ws, Ack(op'.data.value.id)) >>
        /\ clients' = clients
        /\ wsDeviceId' = wsDeviceId
        /\ readyState' = readyState ]_vars

\* A paired socket sent chat.send to a gateway whose application replies
\* from its listener: one notification, one acknowledgment.
C11_Witness ==
    /\ IsRequest
    /\ Request.method = "chat.send"
    /\ Request.params_message = "hi"
    /\ wsDeviceId[op.ws] = "d1"
    /\ readyState[op.ws] = "OPEN"
    /\ app = "bot"
    /\ Len(EmitsOf(trace, "message")) = 1
    /\ Responses(trace) = << Sent(op.ws, Ack(Request.id)) >>

(* ------------------------------------------------------------------ *)
(* C12                                                                *)
(* ------------------------------------------------------------------ *)

\* The application called sendText for an id the registry maps to a socket
\* whose transport is open (read in the state before the call).
SendTextToOpen ==
    /\ op'.name = "sendText"
    /\ MapGet(clients, op'.deviceId) # NoWs
    /\ readyState[MapGet(clients, op'.deviceId)] = "OPEN"

\* The chat event every such call writes, apart from sessionKey and runId.
IsFinalChatEvent(data, text) ==
    /\ data.type = "event"
    /\ data.event = "chat"
    /\ data.payload.seq = 1
    /\ data.payload.state = "final"
    /\ data.payload.message.usage = [input |-> 0, output |-> 0, totalTokens |-> 0]
    /\ data.payload.message.role = "assistant"
    /\ data.payload.message.content = << [type |-> "text", text |-> text] >>

\* C12, as claimed: such a call returns true and writes exactly one frame,
\* to the registered socket: the chat event, with options.sessionKey when
\* it is supplied and "main" otherwise, and options.runId when it is
\* supplied and a generated identifier otherwise; the registry is unchanged.
C12_SendTextHonoursSuppliedOptions ==
    [][ SendTextToOpen =>
            /\ trace'[Len(trace')] = [kind |-> "return", fn |-> "sendText",
                                      deviceId |-> op'.deviceId, value |-> TRUE]
            /\ Len(Sends(trace')) = 1
            /\ Sends(trace')[1].ws = clients[op'.deviceId]
            /\ IsFinalChatEvent(Sends(trace')[1].data, "hello")
            /\ Sends(trace')[1].data.payload.sessionKey =
                   IF op'.options.sessionKey # Undefined
                   THEN op'.options.sessionKey ELSE "main"
            /\ Sends(trace')[1].data.payload.runId =
                   IF op'.options.runId # Undefined THEN op'.options.runId ELSE Uuid
            /\ clients' = clients ]_vars

\* C12, amended: the same, with options.sessionKey and options.runId used
\* when they are supplied and not the empty string; an empty string is
\* replaced like a missing option.
C12_SendTextHonoursNonEmptyOptions ==
    [][ SendTextToOpen =>
            /\ trace'[Len(trace')] = [kind |-> "return", fn |-> "sendText",
                                      deviceId |-> op'.deviceId, value |-> TRUE]
            /\ Len(Sends(trace')) = 1
            /\ Sends(trace')[1].ws = clients[op'.deviceId]
            /\ IsFinalChatEvent(Sends(trace')[1].data, "hello")
            /\ Sends(trace')[1].data.payload.sessionKey =
                   IF op'.options.sessionKey \notin {Undefined, ""}
                   THEN op'.options.sessionKey ELSE "main"
            /\ Sends(trace')[1].data.payload.runId =
                   IF op'.options.runId \notin {Undefined, ""}
                   THEN op'.options.runId ELSE Uuid
            /\ clients' = clients ]_vars

\* sendText with both options supplied wrote the chat event carrying them to
\* the registered, open socket.
C12_Witness ==
    /\ op.name = "sendText"
    /\ op.options = [runId |-> "k1", sessionKey |-> "s2"]
    /\ MapGet(clients, op.deviceId) # NoWs
    /\ Len(Sends(trace)) = 1
    /\ Sends(trace)[1].ws = clients[op.deviceId]
    /\ Sends(trace)[1].data.payload.runId = "k1"
    /\ Sends(trace)[1].data.payload.sessionKey = "s2"

(* ------------------------------------------------------------------ *)
(* C13                                                                *)
(* ------------------------------------------------------------------ *)

\* C13: when a socket closes, if it was paired with device id d the entry
\* of d is removed and exactly one deviceDisconnected{id: d} is raised; if
\* it was not paired the registry is unchanged and nothing is raised; and
\* afterwards no registry entry maps to the closed socket.
C13_CloseRemovesEntryAndNotifies ==
    [][ op'.name = "close" =>
            /\ IF wsDeviceId[op'.ws] # Undefined
               THEN /\ wsDeviceId[op'.ws] \notin DOMAIN clients'
                    /\ Emits(trace') =
                           << [kind |-> "emit", event |-> "deviceDisconnected",
                               payload |-> [id |-> wsDeviceId[op'.ws]]] >>
               ELSE /\ clients' = clients
                    /\ Emits(trace') = <<>>
            /\ \A d \in DOMAIN clients' : clients'[d] # op'.ws ]_vars

(* ------------------------------------------------------------------ *)
(* C14                                                                *)
(* ------------------------------------------------------------------ *)

\* C14: the first frame written to every accepted socket is the
\* connect.challenge event with a nonce and a timestamp: _handleConnection
\* writes it, and nothing else, before any message of the socket is handled.
C14_ChallengeIsFirstFrame ==
    /\ \A c \in Conns : readyState[c] # "NONE" => firstSent[c] = Challenge
    /\ op.name = "connection" => Sends(trace) = << Sent(op.ws, Challenge) >>
    /\ DOMAIN Challenge.payload = {"nonce", "ts"}

\* A socket has been accepted and a later request on it was answered.
C14_Witness ==
    /\ IsRequest
    /\ SendsTo(trace, op.ws) # <<>>
    /\ firstSent[op.ws] = Challenge

(* ------------------------------------------------------------------ *)
(* C15                                                                *)
(* ------------------------------------------------------------------ *)

\* The four locations of the token and of the device id, in the order the
\* claim gives.
TokenLocations(msg) ==
    << msg.params_auth_token, msg.params_authToken, msg.auth_token, msg.token >>

DeviceLocations(msg) ==
    << msg.params_device_id, msg.params_deviceId, msg.params_client_id, msg.deviceId >>

\* A value is present at a location: the field exists, the empty string
\* included.
Present(x) == x # Undefined

FirstPresent(locs) ==
    locs[CHOOSE i \in 1..Len(locs) :
            Present(locs[i]) /\ \A j \in 1..(i - 1) : ~Present(locs[j])]

FirstNonEmpty(locs) ==
    locs[CHOOSE i \in 1..Len(locs) :
            Truthy(locs[i]) /\ \A j \in 1..(i - 1) : ~Truthy(locs[j])]

\* C15, as claimed: the token is the value at the first location where one
\* is present, the device id the value at the first location where one is
\* present, and the id is synthesized from the remote address only when no
\* location holds a device id; empty strings count as values.
C15_FirstPresentValueWins ==
    extractOut.done =>
        LET tk == TokenLocations(extractIn.msg)
            dv == DeviceLocations(extractIn.msg)
        IN  /\ extractOut.token =
                   IF \E i \in 1..4 : Present(tk[i]) THEN FirstPresent(tk) ELSE Undefined
            /\ extractOut.deviceId =
                   IF \E i \in 1..4 : Present(dv[i])
                   THEN FirstPresent(dv) ELSE TemplateDeviceId(extractIn.remoteInfo)

\* C15, amended: the token is the value at the first location that holds a
\* non-empty value, and with no such location the top-level token field
\* (empty or absent); the device id is the value at the first location that
\* holds a non-empty value, and the id is synthesized from the remote
\* address exactly when no location holds a non-empty device id.
C15_FirstNonEmptyValueWins ==
    extractOut.done =>
        LET tk == TokenLocations(extractIn.msg)
            dv == DeviceLocations(extractIn.msg)
        IN  /\ extractOut.token =
                   IF \E i \in 1..4 : Truthy(tk[i]) THEN FirstNonEmpty(tk) ELSE tk[4]
            /\ extractOut.deviceId =
                   IF \E i \in 1..4 : Truthy(dv[i])
                   THEN FirstNonEmpty(dv) ELSE TemplateDeviceId(extractIn.remoteInfo)

\* params.auth.token is empty and auth.token is the first non-empty token;
\* every device id location is empty or absent, so the id is synthesized.
C15_Witness ==
    /\ extractOut.done
    /\ extractIn.msg.params_auth_token = ""
    /\ extractIn.msg.params_authToken = Undefined
    /\ extractIn.msg.auth_token = "t3"
    /\ extractIn.msg.token = "t4"
    /\ extractOut.token = "t3"
    /\ extractIn.msg.params_device_id = ""
    /\ extractOut.deviceId = TemplateDeviceId(extractIn.remoteInfo)

(* ------------------------------------------------------------------ *)
(* C16                                                                *)
(* ------------------------------------------------------------------ *)

\* C16: a request whose method is none of connect, gateway.connect and
\* chat.send writes no frame and raises no notification, and leaves the
\* registry and every connection's lifecycle state and device id as they
\* were, whatever state the connection is in.
C16_UnknownMethodIgnored ==
    [][ ( /\ op'.name = "message"
          /\ op'.data.kind = "object"
          /\ op'.data.value.method \notin {"connect", "gateway.connect", "chat.send"} )
        =>
        /\ Sends(trace') = <<>>
        /\ Emits(trace') = <<>>
        /\ clients' = clients
        /\ wsDeviceId' = wsDeviceId
        /\ readyState' = readyState ]_vars

\* A paired, open socket sent a request with an unknown method.
C16_Witness ==
    /\ IsRequest
    /\ Request.method = "ping"
    /\ readyState[op.ws] = "OPEN"
    /\ wsDeviceId[op.ws] # Undefined
    /\ MapGet(clients, wsDeviceId[op.ws]) = op.ws
    /\ Sends(trace) = <<>>
    /\ Emits(trace) = <<>>

(* ------------------------------------------------------------------ *)
(* C17                                                                *)
(* ------------------------------------------------------------------ *)

\* C17: every frame the last callback wrote went to a connection whose
\* transport was open; a write to any other connection was dropped, and
\* nothing written later makes up for it (a callback writes only the frames
\* of its own request).
C17_NoFrameToNonOpenTransport ==
    \A i \in 1..Len(trace) :
        trace[i].kind = "send" => readyState[trace[i].ws] = "OPEN"

\* sendText for a registered device whose transport is closing: the call
\* returned true and wrote nothing.
C17_Witness ==
    /\ op.name = "sendText"
    /\ MapGet(clients, op.deviceId) # NoWs
    /\ readyState[MapGet(clients, op.deviceId)] = "CLOSING"
    /\ Sends(trace) = <<>>

(* ------------------------------------------------------------------ *)
(* C18                                                                *)
(* ------------------------------------------------------------------ *)

\* C18: every registry entry d -> c refers to a connection c that has not
\* closed and whose own device id is d.
C18_RegistryEntriesAreLiveAndTagged ==
    \A d \in DOMAIN clients :
        /\ readyState[clients[d]] # "CLOSED"
        /\ wsDeviceId[clients[d]] = d

(* ------------------------------------------------------------------ *)
(* C19                                                                *)
(* ------------------------------------------------------------------ *)

\* C19: in the frames written while a chat.send of a paired connection is
\* handled, the acknowledgment of the request comes before every chat event
\* the application sent from its message listener.
C19_AckPrecedesReply ==
    ( /\ IsRequest
      /\ Request.method = "chat.send"
      /\ wsDeviceId[op.ws] # Undefined )
    =>
    \A i \in 1..Len(trace) :
        (trace[i].kind = "send" /\ IsChatEvent(trace[i].data))
        => \E j \in 1..(i - 1) : trace[j] = Sent(op.ws, Ack(Request.id))

(* ------------------------------------------------------------------ *)
(* C20                                                                *)
(* ------------------------------------------------------------------ *)

\* C20: a deviceDisconnected{id} of a connection comes only after a
\* deviceConnected{id} of the same connection, and once a connection has
\* closed every id it raised deviceConnected for has had its
\* deviceDisconnected.
C20_NotificationsBalanced ==
    /\ \A n \in notified :
           n[1] = "deviceDisconnected" => <<"deviceConnected", n[2], n[3]>> \in notified
    /\ \A n \in notified :
           (n[1] = "deviceConnected" /\ readyState[n[2]] = "CLOSED")
           => <<"deviceDisconnected", n[2], n[3]>> \in notified

====
